---------------------------- MODULE Spec2Model ----------------------------
(***************************************************************************)
(* A model of tiff-composer: the GeoCoordinate / GeoCoordinateExtent value *)
(* types (tiffcomposer/core/coordinates.py), the point lookup              *)
(* (tiffcomposer/utils/pixel.py) and the extent window and aggregation     *)
(* (tiffcomposer/utils/extent.py).                                         *)
(*                                                                         *)
(* Degrees are integers.  A float produced by the inverse affine transform *)
(* is an exact fraction [num, den] with den > 0, so that truncation        *)
(* (Python's int()) and the bounds comparisons are computed, not assumed.  *)
(***************************************************************************)
EXTENDS Integers, Sequences, FiniteSets, TLC

VARIABLES heap, ext, src, last

vars == <<heap, ext, src, last>>

-----------------------------------------------------------------------------
(* Bounds of the model *)

\* number of GeoCoordinate objects that may be alive at once
MaxObjs == 2

Ids == 1..MaxObjs

\* values offered to the constructor and the setters of GeoCoordinate
LatInputs == {-91, -90, 90, 91}
LonInputs == {-181, -180, 45, 180, 181}

-----------------------------------------------------------------------------
(* GeoCoordinate: coordinates.py *)

LatMin == -90
LatMax == 90
LonMin == -180
LonMax == 180

\* a GeoCoordinate instance before __init__ has set anything on it
NewObject == [class |-> "GeoCoordinate"]

\* isinstance(obj, cls)
isinstance(obj, cls) == obj.class = cls

\* self.<name> = value on the instance dictionary
SetAttr(obj, name, value) ==
    [x \in (DOMAIN obj) \cup {name} |-> IF x = name THEN value ELSE obj[x]]

\* an exception left the call; obj is the receiver as the call left it
Raise(obj) == [ok |-> FALSE, obj |-> obj]

Returned(obj) == [ok |-> TRUE, obj |-> obj]

\* latitude.setter: raise unless -90 <= value <= 90, else store
latitude_setter_unchecked(obj, value) ==
    Returned(SetAttr(obj, "latitude", value))

latitude_setter(obj, value) ==
    IF ~(LatMin <= value /\ value <= LatMax)
    THEN Raise(obj)
    ELSE Returned(SetAttr(obj, "latitude", value))

\* longitude.setter: raise unless -180 <= value <= 180, else store
longitude_setter_store_first(obj, value) ==
    IF ~(LonMin <= value /\ value <= LonMax)
    THEN Raise(SetAttr(obj, "longitude", value))
    ELSE Returned(SetAttr(obj, "longitude", value))

longitude_setter(obj, value) ==
    IF ~(LonMin <= value /\ value <= LonMax)
    THEN Raise(obj)
    ELSE Returned(SetAttr(obj, "longitude", value))

\* GeoCoordinate(latitude, longitude): __init__ runs both setters in order;
\* an exception in either leaves no object behind
GeoCoordinate(latitude, longitude) ==
    LET r1 == latitude_setter(NewObject, latitude)
    IN  IF ~r1.ok THEN r1 ELSE longitude_setter(r1.obj, longitude)

\* the inverted property
inverted(self) == GeoCoordinate(self.longitude, self.latitude)

to_tuple(self) == <<self.latitude, self.longitude>>

to_list(self) == <<self.latitude, self.longitude>>

to_dict(self) == [latitude |-> self.latitude, longitude |-> self.longitude]

from_tuple_longitude_first(values) == GeoCoordinate(values[2], values[1])

from_tuple(values) == GeoCoordinate(values[1], values[2])

from_list(values) == GeoCoordinate(values[1], values[2])

from_dict(values) == GeoCoordinate(values.latitude, values.longitude)

\* __add__: component-wise sum, through the constructor
add_unvalidated(self, other) ==
    IF ~isinstance(other, "GeoCoordinate")
    THEN Raise(NewObject)
    ELSE Returned(SetAttr(SetAttr(NewObject, "latitude",
                                  self.latitude + other.latitude),
                          "longitude", self.longitude + other.longitude))

__add__(self, other) ==
    IF ~isinstance(other, "GeoCoordinate")
    THEN Raise(NewObject)
    ELSE GeoCoordinate(self.latitude + other.latitude,
                       self.longitude + other.longitude)

\* __sub__: component-wise difference, through the constructor
__sub__(self, other) ==
    IF ~isinstance(other, "GeoCoordinate")
    THEN Raise(NewObject)
    ELSE GeoCoordinate(self.latitude - other.latitude,
                       self.longitude - other.longitude)

-----------------------------------------------------------------------------
(* GeoCoordinate comparison and hashing: coordinates.py *)

\* a comparison returned value
Result(value) == [ok |-> TRUE, value |-> value]

\* a comparison raised GeoCoordinateError
TypeMismatch == [ok |-> FALSE, value |-> "GeoCoordinateError"]

\* __eq__: type check, then both fields
eq_latitude_only(self, other) ==
    IF ~isinstance(other, "GeoCoordinate")
    THEN TypeMismatch
    ELSE Result(self.latitude = other.latitude)

__eq__(self, other) ==
    IF ~isinstance(other, "GeoCoordinate")
    THEN TypeMismatch
    ELSE Result(self.latitude = other.latitude /\ self.longitude = other.longitude)

\* __ne__: type check, then either field
__ne__(self, other) ==
    IF ~isinstance(other, "GeoCoordinate")
    THEN TypeMismatch
    ELSE Result(self.latitude # other.latitude \/ self.longitude # other.longitude)

\* hash(n) of a small integer: n itself, except that -1 hashes to -2
hash(n) == IF n = -1 THEN -2 ELSE n

\* hash of a pair: a function of the hashes of its items, in order
hash_tuple(t) == (31 * hash(t[1]) + hash(t[2])) % 65536

\* __hash__: hash((self.latitude, self.longitude))
__hash__(self) == hash_tuple(<<self.latitude, self.longitude>>)

-----------------------------------------------------------------------------
(* GeoCoordinateExtent: coordinates.py *)

\* a reference that is not bound to a GeoCoordinate (a tuple, say)
NotACoordinate == 0

\* the object a reference denotes
Deref(h, ref) == IF ref \in DOMAIN h THEN h[ref] ELSE [class |-> "tuple"]

NoExtent == [class |-> "NoneType"]

NewExtentObject == [class |-> "GeoCoordinateExtent"]

\* start.setter: type check, then keep the reference
start_setter(h, obj, ref) ==
    IF ~isinstance(Deref(h, ref), "GeoCoordinate")
    THEN Raise(obj)
    ELSE Returned(SetAttr(obj, "start", ref))

\* end.setter: type check, then keep the reference
end_setter(h, obj, ref) ==
    IF ~isinstance(Deref(h, ref), "GeoCoordinate")
    THEN Raise(obj)
    ELSE Returned(SetAttr(obj, "end", ref))

\* GeoCoordinateExtent(start, end)
GeoCoordinateExtent(h, start, end) ==
    LET r1 == start_setter(h, NewExtentObject, start)
    IN  IF ~r1.ok THEN r1 ELSE end_setter(h, r1.obj, end)

\* GeoCoordinateExtent.to_tuple
extent_to_tuple(h, self) ==
    <<h[self.start].longitude, h[self.end].latitude,
      h[self.end].longitude, h[self.start].latitude>>

\* GeoCoordinateExtent.to_list
extent_to_list(h, self) ==
    <<h[self.start].longitude, h[self.end].latitude,
      h[self.end].longitude, h[self.start].latitude>>

\* GeoCoordinateExtent.to_dict
extent_to_dict(h, self) ==
    [left   |-> h[self.start].longitude,
     bottom |-> h[self.start].latitude,
     right  |-> h[self.end].longitude,
     top    |-> h[self.end].latitude]

\* GeoCoordinateExtent.__hash__: hash((self.start, self.end))
extent_hash(h, self) == hash_tuple(<<__hash__(h[self.start]), __hash__(h[self.end])>>)

-----------------------------------------------------------------------------
(* The record of the last call: what was called, on what, and what came back *)

Call(op, ok, self, arg, res) ==
    [op |-> op, ok |-> ok, self |-> self, arg |-> arg, res |-> res]

NoCall == Call("none", TRUE, 0, <<>>, <<>>)

\* bind a newly built object to a free identity
Bind(h, id, obj) == [i \in (DOMAIN h) \cup {id} |-> IF i = id THEN obj ELSE h[i]]

-----------------------------------------------------------------------------
(* Operations on coordinates and extents *)

\* c = GeoCoordinate(latitude, longitude)
New(id, latitude, longitude) ==
    /\ id \notin DOMAIN heap
    /\ LET r == GeoCoordinate(latitude, longitude)
       IN  /\ heap' = IF r.ok THEN Bind(heap, id, r.obj) ELSE heap
           /\ last' = Call("GeoCoordinate", r.ok, id, <<latitude, longitude>>, <<>>)
    /\ UNCHANGED <<ext, src>>

\* c.latitude = value
SetLatitude(id, value) ==
    /\ id \in DOMAIN heap
    /\ LET r == latitude_setter(heap[id], value)
       IN  /\ heap' = [heap EXCEPT ![id] = r.obj]
           /\ last' = Call("latitude", r.ok, id, <<value>>, <<>>)
    /\ UNCHANGED <<ext, src>>

\* c.longitude = value
SetLongitude(id, value) ==
    /\ id \in DOMAIN heap
    /\ LET r == longitude_setter(heap[id], value)
       IN  /\ heap' = [heap EXCEPT ![id] = r.obj]
           /\ last' = Call("longitude", r.ok, id, <<value>>, <<>>)
    /\ UNCHANGED <<ext, src>>

\* c.inverted
Inverted(id) ==
    /\ id \in DOMAIN heap
    /\ LET r == inverted(heap[id])
       IN  last' = Call("inverted", r.ok, id, <<>>, r.obj)
    /\ UNCHANGED <<heap, ext, src>>

\* a + b
Add(a, b) ==
    /\ a \in DOMAIN heap
    /\ LET r == __add__(heap[a], Deref(heap, b))
       IN  last' = Call("add", r.ok, a, <<b>>, r.obj)
    /\ UNCHANGED <<heap, ext, src>>

\* a - b
Sub(a, b) ==
    /\ a \in DOMAIN heap
    /\ LET r == __sub__(heap[a], Deref(heap, b))
       IN  last' = Call("sub", r.ok, a, <<b>>, r.obj)
    /\ UNCHANGED <<heap, ext, src>>

\* extent = GeoCoordinateExtent(start, end)
NewExtent(start, end) ==
    /\ ext.class = "NoneType"
    /\ LET r == GeoCoordinateExtent(heap, start, end)
       IN  /\ ext' = IF r.ok THEN r.obj ELSE ext
           /\ last' = Call("GeoCoordinateExtent", r.ok, 0, <<start, end>>, <<>>)
    /\ UNCHANGED <<heap, src>>

\* extent.start = value
SetStart(value) ==
    /\ ext.class = "GeoCoordinateExtent"
    /\ LET r == start_setter(heap, ext, value)
       IN  /\ ext' = r.obj
           /\ last' = Call("start", r.ok, 0, <<value>>, <<>>)
    /\ UNCHANGED <<heap, src>>

\* extent.end = value
SetEnd(value) ==
    /\ ext.class = "GeoCoordinateExtent"
    /\ LET r == end_setter(heap, ext, value)
       IN  /\ ext' = r.obj
           /\ last' = Call("end", r.ok, 0, <<value>>, <<>>)
    /\ UNCHANGED <<heap, src>>

\* hash(extent)
ExtentHash ==
    /\ ext.class = "GeoCoordinateExtent"
    /\ last' = Call("extent_hash", TRUE, 0, <<>>, extent_hash(heap, ext))
    /\ UNCHANGED <<heap, ext, src>>

\* a == b
Eq(a, b) ==
    /\ a \in DOMAIN heap
    /\ LET r == __eq__(heap[a], Deref(heap, b))
       IN  last' = Call("eq", r.ok, a, <<b>>, r.value)
    /\ UNCHANGED <<heap, ext, src>>

\* a != b
Ne(a, b) ==
    /\ a \in DOMAIN heap
    /\ LET r == __ne__(heap[a], Deref(heap, b))
       IN  last' = Call("ne", r.ok, a, <<b>>, r.value)
    /\ UNCHANGED <<heap, ext, src>>

\* hash(a)
Hash(a) ==
    /\ a \in DOMAIN heap
    /\ last' = Call("hash", TRUE, a, <<>>, __hash__(heap[a]))
    /\ UNCHANGED <<heap, ext, src>>

\* a.to_tuple()
ToTuple(a) ==
    /\ a \in DOMAIN heap
    /\ last' = Call("to_tuple", TRUE, a, <<>>, to_tuple(heap[a]))
    /\ UNCHANGED <<heap, ext, src>>

\* a.to_list()
ToList(a) ==
    /\ a \in DOMAIN heap
    /\ last' = Call("to_list", TRUE, a, <<>>, to_list(heap[a]))
    /\ UNCHANGED <<heap, ext, src>>

\* a.to_dict()
ToDict(a) ==
    /\ a \in DOMAIN heap
    /\ last' = Call("to_dict", TRUE, a, <<>>, to_dict(heap[a]))
    /\ UNCHANGED <<heap, ext, src>>

\* c = GeoCoordinate.from_tuple(values), values the tuple just returned
FromTuple(id) ==
    /\ id \notin DOMAIN heap
    /\ last.op = "to_tuple"
    /\ LET r == from_tuple(last.res)
       IN  /\ heap' = IF r.ok THEN Bind(heap, id, r.obj) ELSE heap
           /\ last' = Call("from_tuple", r.ok, id, <<last.res>>, <<>>)
    /\ UNCHANGED <<ext, src>>

\* c = GeoCoordinate.from_list(values), values the list just returned
FromList(id) ==
    /\ id \notin DOMAIN heap
    /\ last.op = "to_list"
    /\ LET r == from_list(last.res)
       IN  /\ heap' = IF r.ok THEN Bind(heap, id, r.obj) ELSE heap
           /\ last' = Call("from_list", r.ok, id, <<last.res>>, <<>>)
    /\ UNCHANGED <<ext, src>>

\* c = GeoCoordinate.from_dict(values), values the dict just returned
FromDict(id) ==
    /\ id \notin DOMAIN heap
    /\ last.op = "to_dict"
    /\ LET r == from_dict(last.res)
       IN  /\ heap' = IF r.ok THEN Bind(heap, id, r.obj) ELSE heap
           /\ last' = Call("from_dict", r.ok, id, <<last.res>>, <<>>)
    /\ UNCHANGED <<ext, src>>

\* extent.to_tuple()
ExtentToTuple ==
    /\ ext.class = "GeoCoordinateExtent"
    /\ last' = Call("extent_to_tuple", TRUE, 0, <<>>, extent_to_tuple(heap, ext))
    /\ UNCHANGED <<heap, ext, src>>

\* extent.to_list()
ExtentToList ==
    /\ ext.class = "GeoCoordinateExtent"
    /\ last' = Call("extent_to_list", TRUE, 0, <<>>, extent_to_list(heap, ext))
    /\ UNCHANGED <<heap, ext, src>>

\* extent.to_dict()
ExtentToDict ==
    /\ ext.class = "GeoCoordinateExtent"
    /\ last' = Call("extent_to_dict", TRUE, 0, <<>>, extent_to_dict(heap, ext))
    /\ UNCHANGED <<heap, ext, src>>

-----------------------------------------------------------------------------
(* The raster handle (rasterio's DatasetReader) and exact arithmetic *)

\* raster size in pixels
RasterWidth == 3
RasterHeight == 2

\* affine transforms x = a*col + b*row + c, y = d*col + e*row + f:
\* north-up, south-up and one with the axes exchanged
Transforms ==
    { [a |-> 20, b |-> 0,  c |-> 80, d |-> 0,  e |-> -20, f |-> 40],
      [a |-> 20, b |-> 0,  c |-> 80, d |-> 0,  e |-> 20,  f |-> 0],
      [a |-> 0,  b |-> 20, c |-> 80, d |-> 20, e |-> 0,   f |-> 0] }

NorthUp(t) == t.b = 0 /\ t.d = 0 /\ t.a > 0 /\ t.e < 0

\* band 1: rows 1..height of columns 1..width (index 0 of the array is 1 here)
Bands ==
    { [r \in 1..RasterHeight |-> [c \in 1..RasterWidth |-> 0]],
      [r \in 1..RasterHeight |-> [c \in 1..RasterWidth |->
            IF (r + c) % 2 = 0 THEN 0 ELSE -5]],
      [r \in 1..RasterHeight |-> [c \in 1..RasterWidth |->
            ((r + 2 * c) % 4) * 3 - 3]],
      [r \in 1..RasterHeight |-> [c \in 1..RasterWidth |->
            10 * ((r - 1) * RasterWidth + c)]] }

Rasters ==
    { [transform |-> t, width |-> RasterWidth, height |-> RasterHeight, data |-> d] :
        t \in Transforms, d \in Bands }

\* coordinates offered to the raster queries: inside and outside the rasters
RasterLats == {-10, 10, 30, 50}
RasterLons == {70, 90, 110, 150}

\* a float as an exact fraction with a positive denominator
Frac(n, d) == IF d < 0 THEN [num |-> -n, den |-> -d] ELSE [num |-> n, den |-> d]

\* int(x): truncation toward zero
int(q) == IF q.num >= 0 THEN q.num \div q.den ELSE -((-q.num) \div q.den)

\* 0 <= x < n for a float x and an integer n
InRange(q, n) == q.num >= 0 /\ q.num < n * q.den

\* ~transform * (x, y): the pair (column, row), in that order
InverseApply(t, x, y) ==
    LET det == t.a * t.e - t.b * t.d
    IN  << Frac(t.e * (x - t.c) - t.b * (y - t.f), det),
           Frac(t.a * (y - t.f) - t.d * (x - t.c), det) >>

max(x, y) == IF x >= y THEN x ELSE y

min(x, y) == IF x <= y THEN x ELSE y

-----------------------------------------------------------------------------
(* pixel.py *)

\* get_value_from_coordinates(coordinate, src, data) with data = band 1 of src
get_value_from_coordinates(coordinate, dataset) ==
    LET inv == inverted(coordinate)
    IN  IF ~inv.ok
        THEN [kind |-> "raise", value |-> 0]
        ELSE LET xy  == to_tuple(inv.obj)
                 p   == InverseApply(dataset.transform, xy[1], xy[2])
                 col == p[1]
                 row == p[2]
             IN  IF InRange(col, dataset.width) /\ InRange(row, dataset.height)
                 THEN [kind |-> "value",
                       value |-> dataset.data[int(row) + 1][int(col) + 1]]
                 ELSE [kind |-> "None", value |-> 0]

-----------------------------------------------------------------------------
(* extent.py *)

\* the Window(col_off, row_off, width, height) clip_tiff_to_extent builds
Window(dataset, h, extent) ==
    LET t        == extent_to_tuple(h, extent)
        left     == t[1]
        bottom   == t[2]
        right    == t[3]
        top      == t[4]
        p1       == InverseApply(dataset.transform, left, top)
        p2       == InverseApply(dataset.transform, right, bottom)
        row_min0 == int(p1[1])
        col_min0 == int(p1[2])
        row_max0 == int(p2[1])
        col_max0 == int(p2[2])
        row_min  == max(0, row_min0)
        col_min  == max(0, col_min0)
        row_max  == min(dataset.height, row_max0)
        col_max  == min(dataset.width, col_max0)
    IN  <<col_min, row_min, col_max - col_min, row_max - row_min>>

\* the samples of a window inside the raster, row by row
WindowSamples(dataset, w) ==
    [k \in 1..(w[3] * w[4]) |->
        dataset.data[w[2] + ((k - 1) \div w[3]) + 1][w[1] + ((k - 1) % w[3]) + 1]]

\* src.read(1, window=window): what the raster library may answer.  A window
\* of positive area inside the raster is read; for a window without area
\* (width or height zero or negative) the library either rejects the window
\* or hands back an array without samples.
read(dataset, w) ==
    IF w[3] > 0 /\ w[4] > 0
    THEN { [kind |-> "array", samples |-> WindowSamples(dataset, w)] }
    ELSE { [kind |-> "raise", samples |-> <<>>],
           [kind |-> "array", samples |-> <<>>] }

\* clip_tiff_to_extent(src, extent): the possible outcomes
clip_tiff_to_extent(dataset, h, extent) == read(dataset, Window(dataset, h, extent))

\* clipped_data[clipped_data > 0]
Positive_or_zero(samples) == SelectSeq(samples, LAMBDA v : v >= 0)

Positive(samples) == SelectSeq(samples, LAMBDA v : v > 0)

RECURSIVE SeqSum(_)
SeqSum(q) == IF q = <<>> THEN 0 ELSE Head(q) + SeqSum(Tail(q))

RECURSIVE SeqMax(_)
SeqMax(q) == IF Len(q) = 1 THEN q[1] ELSE max(Head(q), SeqMax(Tail(q)))

RECURSIVE SeqMin(_)
SeqMin(q) == IF Len(q) = 1 THEN q[1] ELSE min(Head(q), SeqMin(Tail(q)))

Value(n, d) == [kind |-> "value", num |-> n, den |-> d, why |-> "none"]

NaN == [kind |-> "nan", num |-> 0, den |-> 1, why |-> "none"]

\* numpy's ValueError for a reduction over no samples
Error == [kind |-> "raise", num |-> 0, den |-> 1, why |-> "empty"]

\* the exception of the window read, passing through
WindowError == [kind |-> "raise", num |-> 0, den |-> 1, why |-> "window"]

\* raise ValueError("Mode must be 'mean', 'max', or 'min'")
ModeError == [kind |-> "raise", num |-> 0, den |-> 1, why |-> "mode"]

\* np.mean: the mean as a fraction; of no samples, nan (with a warning)
np_mean(q) == IF q = <<>> THEN NaN ELSE Value(SeqSum(q), Len(q))

\* np.max: raises on an array without samples
np_max(q) == IF q = <<>> THEN Error ELSE Value(SeqMax(q), 1)

\* np.min: raises on an array without samples
np_min(q) == IF q = <<>> THEN Error ELSE Value(SeqMin(q), 1)

Modes == {"mean", "max", "min", "median"}

\* get_population_density_in_extent, after the clip answered clipped
get_population_density_in_extent_default_mean(clipped, mode) ==
    IF clipped.kind = "raise"
    THEN WindowError
    ELSE LET clipped_data == Positive(clipped.samples)
         IN  IF mode = "max" THEN np_max(clipped_data)
             ELSE IF mode = "min" THEN np_min(clipped_data)
             ELSE np_mean(clipped_data)

get_population_density_in_extent(clipped, mode) ==
    IF clipped.kind = "raise"
    THEN WindowError
    ELSE LET clipped_data == Positive(clipped.samples)
         IN  IF mode = "mean" THEN np_mean(clipped_data)
             ELSE IF mode = "max" THEN np_max(clipped_data)
             ELSE IF mode = "min" THEN np_min(clipped_data)
             ELSE ModeError

-----------------------------------------------------------------------------
(* Operations on a raster *)

\* get_value_from_coordinates(c, src, data)
ValueAt(id) ==
    /\ id \in DOMAIN heap
    /\ last' = Call("value_at", TRUE, id, <<>>,
                    get_value_from_coordinates(heap[id], src))
    /\ UNCHANGED <<heap, ext, src>>

\* clip_tiff_to_extent(src, extent)
Clip ==
    /\ ext.class = "GeoCoordinateExtent"
    /\ \E clipped \in clip_tiff_to_extent(src, heap, ext) :
          last' = Call("clip", clipped.kind # "raise", 0,
                       Window(src, heap, ext), clipped)
    /\ UNCHANGED <<heap, ext, src>>

\* get_population_density_in_extent(extent, src, mode)
Aggregate(mode) ==
    /\ ext.class = "GeoCoordinateExtent"
    /\ \E clipped \in clip_tiff_to_extent(src, heap, ext) :
          LET r == get_population_density_in_extent(clipped, mode)
          IN  last' = Call("aggregate", r.kind # "raise", 0,
                           <<mode>>, [result |-> r, clipped |-> clipped])
    /\ UNCHANGED <<heap, ext, src>>

-----------------------------------------------------------------------------
(* GeoCoordinate.distance_to and earth_radius: coordinates.py *)
(*                                                                         *)
(* Angles are degrees and floats exact fractions.  The trigonometric       *)
(* functions are tabulated where they are rational: latitudes at multiples *)
(* of 90 and longitudes at multiples of 90, so that half the differences   *)
(* are multiples of 45.  pi is 22/7 and lengths are kilometres, to stay in *)
(* machine integers.                                                       *)

\* coordinates offered to distance_to
DistanceLats == {-90, 0, 90}
DistanceLons == {-180, -90, 0, 90, 180}

\* step values offered to distance_to, in radians: 0, 1/2, 1, 5 and -1
StepInputs == { Frac(0, 1), Frac(1, 2), Frac(1, 1), Frac(5, 1), Frac(-1, 1) }

\* WGS84 radii, in km (6378137.0 m and 6356752.314245 m)
EquatorialRadius == 6378
PolarRadius == 6357

FracMul(p, q) == Frac(p.num * q.num, p.den * q.den)

FracDiv(p, q) == Frac(p.num * q.den, p.den * q.num)

FracAdd(p, q) ==
    IF p.den = q.den THEN Frac(p.num + q.num, p.den)
    ELSE Frac(p.num * q.den + q.num * p.den, p.den * q.den)

Abs(x) == IF x < 0 THEN -x ELSE x

\* 2 * sin(x)**2 for x a multiple of 45 degrees
TwiceSinSquared(x) ==
    LET m == x % 180
    IN  CASE m = 0   -> 0
          [] m = 45  -> 1
          [] m = 90  -> 2
          [] m = 135 -> 1

\* cos(x) for x a latitude that is a multiple of 90 degrees
Cosine(x) ==
    CASE x = 0 -> 1
      [] x \in {-90, 90} -> 0

\* 2 * atan2(sqrt(a), sqrt(1 - a)) for a = twice_a / 2 in {0, 1/2, 1}
CentralAngle(twice_a) ==
    CASE twice_a = 0 -> Frac(0, 1)
      [] twice_a = 1 -> Frac(11, 7)
      [] twice_a = 2 -> Frac(22, 7)

\* earth_radius(latitude): a at the equator, b at the poles; in between the
\* radius of curvature is taken linear in |latitude|
earth_radius(latitude) ==
    Frac(EquatorialRadius * 90 * latitude.den
            - (EquatorialRadius - PolarRadius) * Abs(latitude.num),
         90 * latitude.den)

\* steps = max(int(c / step), 1)
steps_unclamped(c, step) == int(FracDiv(c, step))

StepCount(c, step) == max(int(FracDiv(c, step)), 1)

Distance(v, c, steps) ==
    [kind |-> "value", why |-> "none", value |-> v, c |-> c, steps |-> steps]

DistanceRaise(why, c, steps) ==
    [kind |-> "raise", why |-> why, value |-> Frac(0, 1), c |-> c, steps |-> steps]

\* np.sum(radii[:-1] * (c / steps)) with radii at lat1 + (i / steps) * dlat
RECURSIVE SegmentSum(_, _, _, _, _)
SegmentSum(i, steps, lat1, dlat, segment) ==
    IF i >= steps THEN Frac(0, segment.den * 90 * steps)
    ELSE FracAdd(FracMul(earth_radius(Frac(lat1 * steps + i * dlat, steps)), segment),
                 SegmentSum(i + 1, steps, lat1, dlat, segment))

\* distance_to(self, other, step)
distance_to(self, other, step) ==
    IF ~isinstance(other, "GeoCoordinate")
    THEN DistanceRaise("type", Frac(0, 1), 0)
    ELSE LET dlat    == other.latitude - self.latitude
             dlon    == other.longitude - self.longitude
             twice_a == TwiceSinSquared(dlat \div 2)
                          + Cosine(self.latitude) * Cosine(other.latitude)
                              * TwiceSinSquared(dlon \div 2)
             c       == CentralAngle(twice_a)
         IN  IF step.num = 0
             THEN LET midpoint_lat == Frac(self.latitude + other.latitude, 2)
                  IN  Distance(FracMul(earth_radius(midpoint_lat), c), c, 0)
             ELSE LET steps == StepCount(c, step)
                  IN  IF steps + 1 < 0
                      THEN DistanceRaise("linspace", c, steps)
                      ELSE IF steps = 0
                      THEN DistanceRaise("zero division", c, steps)
                      ELSE Distance(SegmentSum(0, steps, self.latitude, dlat,
                                               FracDiv(c, Frac(steps, 1))),
                                    c, steps)

\* a.distance_to(b, step)
DistanceTo(a, b, step) ==
    /\ a \in DOMAIN heap
    /\ LET r == distance_to(heap[a], Deref(heap, b), step)
       IN  last' = Call("distance_to", r.kind # "raise", a, <<b, step>>, r)
    /\ UNCHANGED <<heap, ext, src>>

-----------------------------------------------------------------------------
(* Specifications *)

DefaultRaster ==
    CHOOSE r \in Rasters : NorthUp(r.transform) /\ r.data[1][1] = 10

\* the value types on their own: objects are built and changed one call at a time
Init ==
    /\ heap = <<>>
    /\ ext = NoExtent
    /\ src = DefaultRaster
    /\ last = NoCall

Next ==
    \/ \E id \in Ids, lat \in LatInputs, lon \in LonInputs : New(id, lat, lon)
    \/ \E id \in Ids, v \in LatInputs : SetLatitude(id, v)
    \/ \E id \in Ids, v \in LonInputs : SetLongitude(id, v)
    \/ \E id \in Ids : Inverted(id)
    \/ \E a \in Ids, b \in Ids \cup {NotACoordinate} : Add(a, b)
    \/ \E a \in Ids, b \in Ids \cup {NotACoordinate} : Sub(a, b)
    \/ \E s \in Ids \cup {NotACoordinate}, e \in Ids \cup {NotACoordinate} : NewExtent(s, e)
    \/ ExtentToTuple
    \/ ExtentToList
    \/ ExtentToDict
    \/ \E v \in Ids \cup {NotACoordinate} : SetStart(v)
    \/ \E v \in Ids \cup {NotACoordinate} : SetEnd(v)
    \/ ExtentHash

Spec == Init /\ [][Next]_vars

\* the raster queries: a raster, two coordinates and the extent between them
\* are drawn, and the queries are applied to them
RasterCoordinates ==
    { r.obj : r \in { c \in { GeoCoordinate(lat, lon) : lat \in RasterLats,
                                                         lon \in RasterLons } : c.ok } }

InitRaster ==
    /\ src \in Rasters
    /\ \E c1 \in RasterCoordinates, c2 \in RasterCoordinates :
          heap = Bind(Bind(<<>>, 1, c1), 2, c2)
    /\ ext = GeoCoordinateExtent(heap, 1, 2).obj
    /\ last = NoCall

NextRaster ==
    \/ \E id \in {1, 2} : ValueAt(id)
    \/ Clip
    \/ \E mode \in Modes : Aggregate(mode)

SpecRaster == InitRaster /\ [][NextRaster]_vars

\* distances: two coordinates are drawn and distance_to is applied to them
DistanceCoordinates ==
    { r.obj : r \in { c \in { GeoCoordinate(lat, lon) : lat \in DistanceLats,
                                                         lon \in DistanceLons } : c.ok } }

InitDistance ==
    /\ src = DefaultRaster
    /\ \E c1 \in DistanceCoordinates, c2 \in DistanceCoordinates :
          heap = Bind(Bind(<<>>, 1, c1), 2, c2)
    /\ ext = NoExtent
    /\ last = NoCall

NextDistance ==
    \E a \in {1, 2}, b \in {1, 2, NotACoordinate}, step \in StepInputs :
        DistanceTo(a, b, step)

SpecDistance == InitDistance /\ [][NextDistance]_vars

\* coordinates as values: construction, comparison, hashing and conversion
NextValue ==
    \/ \E id \in Ids, lat \in LatInputs, lon \in LonInputs : New(id, lat, lon)
    \/ \E a \in Ids, b \in Ids \cup {NotACoordinate} : Eq(a, b)
    \/ \E a \in Ids, b \in Ids \cup {NotACoordinate} : Ne(a, b)
    \/ \E a \in Ids : Hash(a)
    \/ \E a \in Ids : ToTuple(a)
    \/ \E a \in Ids : ToList(a)
    \/ \E a \in Ids : ToDict(a)
    \/ \E id \in Ids : FromTuple(id)
    \/ \E id \in Ids : FromList(id)
    \/ \E id \in Ids : FromDict(id)

SpecValue == Init /\ [][NextValue]_vars

-----------------------------------------------------------------------------
(* Claims about GeoCoordinate and GeoCoordinateExtent, under Spec *)

\* C1: whatever calls were made (constructions, successful or failed
\* assignments, inverted, +, -), every GeoCoordinate that exists -- bound to
\* an identity or just returned by a call -- has its latitude in [-90, 90]
\* and its longitude in [-180, 180].
C1_CoordinatesStayInDomain ==
    /\ \A id \in DOMAIN heap :
          /\ -90 <= heap[id].latitude /\ heap[id].latitude <= 90
          /\ -180 <= heap[id].longitude /\ heap[id].longitude <= 180
    /\ (last.op \in {"inverted", "add", "sub"} /\ last.ok) =>
          /\ -90 <= last.res.latitude /\ last.res.latitude <= 90
          /\ -180 <= last.res.longitude /\ last.res.longitude <= 180

\* C1 witness: every identity is bound and an out-of-range latitude was just
\* refused.
C1_Witness ==
    /\ DOMAIN heap = Ids
    /\ last.op = "latitude" /\ ~last.ok /\ last.arg[1] = 91

\* C2: an assignment of a latitude outside [-90, 90] or of a longitude
\* outside [-180, 180] raises, and the step leaves every field of every
\* coordinate as it was.
C2_FailedAssignmentChangesNothing ==
    [][ /\ (last'.op = "latitude" /\ (last'.arg[1] < -90 \/ last'.arg[1] > 90))
              => (~last'.ok /\ heap' = heap)
        /\ (last'.op = "longitude" /\ (last'.arg[1] < -180 \/ last'.arg[1] > 180))
              => (~last'.ok /\ heap' = heap) ]_vars

\* C2 witness: a longitude of 181 was refused on a coordinate whose latitude
\* is 90.
C2_Witness ==
    /\ last.op = "longitude" /\ ~last.ok /\ last.arg[1] = 181
    /\ heap[last.self].latitude = 90

\* C3 (as claimed): to_tuple() is (left, bottom, right, top), the values of
\* to_dict(), with left = start.longitude, bottom = start.latitude,
\* right = end.longitude, top = end.latitude; to_list() likewise.
C3_TupleAgreesWithDict ==
    (last.op \in {"extent_to_tuple", "extent_to_list"}) =>
        LET d == extent_to_dict(heap, ext)
        IN  /\ d.left = heap[ext.start].longitude
            /\ d.bottom = heap[ext.start].latitude
            /\ d.right = heap[ext.end].longitude
            /\ d.top = heap[ext.end].latitude
            /\ last.res = <<d.left, d.bottom, d.right, d.top>>

\* C4 (as claimed): inverted succeeds on every coordinate and returns the
\* coordinate with latitude and longitude exchanged.
C4_InvertedAlwaysSwaps ==
    (last.op = "inverted") =>
        /\ last.ok
        /\ last.res.latitude = heap[last.self].longitude
        /\ last.res.longitude = heap[last.self].latitude

-----------------------------------------------------------------------------
(* Claims about the raster queries, under SpecRaster *)

\* the (column, row) of a coordinate: the inverse transform applied to
\* (longitude, latitude)
ColRow(c) == InverseApply(src.transform, c.longitude, c.latitude)

Inside(c) == InRange(ColRow(c)[1], src.width) /\ InRange(ColRow(c)[2], src.height)

\* C5 (as claimed): value_at never raises for a valid coordinate, and answers
\* None when the coordinate's (column, row) is outside the raster.
C5_OutsideIsNoValue ==
    (last.op = "value_at") =>
        /\ last.res.kind # "raise"
        /\ ~Inside(heap[last.self]) => last.res.kind = "None"

\* C6 (as claimed): for a coordinate whose (column, row) is inside the
\* raster, value_at returns array[trunc(row)][trunc(column)], column from the
\* longitude and row from the latitude.
C6_InsideIsArrayValue ==
    (last.op = "value_at" /\ Inside(heap[last.self])) =>
        LET col == int(ColRow(heap[last.self])[1])
            row == int(ColRow(heap[last.self])[2])
        IN  /\ last.res.kind = "value"
            /\ row \in 0..(src.height - 1) /\ col \in 0..(src.width - 1)
            /\ last.res.value = src.data[row + 1][col + 1]

\* C7 (as claimed): the window (col_off, row_off, width, height) consists of
\* non-negative integers with col_off and col_off + width in [0, raster
\* width] and row_off and row_off + height in [0, raster height].
C7_WindowInsideRaster ==
    (last.op = "clip") =>
        LET w == last.arg
        IN  /\ w[1] >= 0 /\ w[2] >= 0 /\ w[3] >= 0 /\ w[4] >= 0
            /\ w[1] <= src.width /\ w[1] + w[3] <= src.width
            /\ w[2] <= src.height /\ w[2] + w[4] <= src.height

\* C8 (as claimed): for a north-up transform and an extent with start the
\* lower-left and end the upper-right corner, both inside the raster, the
\* window is col_off = trunc(column of left), row_off = trunc(row of top),
\* width = trunc(column of right) - col_off, height = trunc(row of bottom) -
\* row_off, with width and height >= 0.
C8_WindowOfConventionalExtent ==
    ( /\ last.op = "clip"
      /\ NorthUp(src.transform)
      /\ heap[ext.start].latitude <= heap[ext.end].latitude
      /\ heap[ext.start].longitude <= heap[ext.end].longitude
      /\ Inside(heap[ext.start]) /\ Inside(heap[ext.end]) ) =>
        LET left   == int(ColRow(heap[ext.start])[1])
            bottom == int(ColRow(heap[ext.start])[2])
            right  == int(ColRow(heap[ext.end])[1])
            top    == int(ColRow(heap[ext.end])[2])
        IN  /\ last.arg = <<left, top, right - left, bottom - top>>
            /\ last.arg[3] >= 0 /\ last.arg[4] >= 0

\* the indices of the samples > 0
PositiveAt(samples) == {k \in 1..Len(samples) : samples[k] > 0}

RECURSIVE SumAt(_, _)
SumAt(samples, at) ==
    IF at = {} THEN 0
    ELSE LET k == CHOOSE k \in at : TRUE
         IN  samples[k] + SumAt(samples, at \ {k})

\* C9 (as claimed): for each of the modes mean, max and min the aggregate
\* raises whenever no sample of the window is > 0; it never returns a value.
C9_EmptySelectionRaises ==
    ( /\ last.op = "aggregate"
      /\ last.arg[1] \in {"mean", "max", "min"}
      /\ PositiveAt(last.res.clipped.samples) = {} ) =>
        last.res.result.kind = "raise"

\* C10: when a sample of the window is > 0, the result is computed over
\* exactly the samples > 0: mean is their sum over their number, max their
\* greatest and min their least; so min <= mean <= max and the result is > 0.
C10_AggregatesPositiveSamples ==
    ( /\ last.op = "aggregate"
      /\ last.arg[1] \in {"mean", "max", "min"}
      /\ PositiveAt(last.res.clipped.samples) # {} ) =>
        LET samples == last.res.clipped.samples
            at      == PositiveAt(samples)
            r       == last.res.result
        IN  /\ r.kind = "value"
            /\ r.den > 0 /\ r.num > 0
            /\ last.arg[1] = "mean" =>
                  /\ r.num * Cardinality(at) = SumAt(samples, at) * r.den
                  /\ \E lo \in at, hi \in at :
                        /\ samples[lo] * r.den <= r.num
                        /\ r.num <= samples[hi] * r.den
            /\ last.arg[1] = "max" =>
                  /\ r.den = 1
                  /\ \E k \in at : samples[k] = r.num
                  /\ \A k \in at : samples[k] <= r.num
            /\ last.arg[1] = "min" =>
                  /\ r.den = 1
                  /\ \E k \in at : samples[k] = r.num
                  /\ \A k \in at : samples[k] >= r.num

\* C10 witness: a mean over a window that holds a positive sample next to a
\* zero or negative one, and the mean is not a whole number.
C10_Witness ==
    /\ last.op = "aggregate" /\ last.arg[1] = "mean"
    /\ last.res.result.kind = "value"
    /\ PositiveAt(last.res.clipped.samples) # {}
    /\ \E k \in 1..Len(last.res.clipped.samples) : last.res.clipped.samples[k] <= 0
    /\ last.res.result.num % last.res.result.den # 0

-----------------------------------------------------------------------------
(* Claims about arithmetic, under Spec *)

\* C12 (as claimed): a + b and a - b succeed for every pair of coordinates
\* and return the component-wise sums and differences, also when these lie
\* outside [-90, 90] or [-180, 180].
C12_ArithmeticNeverRejects ==
    (last.op \in {"add", "sub"} /\ last.arg[1] \in DOMAIN heap) =>
        LET a == heap[last.self]
            b == heap[last.arg[1]]
        IN  /\ last.ok
            /\ last.res.latitude =
                  IF last.op = "add" THEN a.latitude + b.latitude
                                     ELSE a.latitude - b.latitude
            /\ last.res.longitude =
                  IF last.op = "add" THEN a.longitude + b.longitude
                                     ELSE a.longitude - b.longitude

\* C12 (amended): a + b and a - b build their result through the
\* constructor: they return the component-wise sums (differences) exactly
\* when these lie in [-90, 90] and [-180, 180] and raise otherwise; in both
\* cases the step leaves a, b and every other coordinate unchanged.
C12_ArithmeticThroughConstructor ==
    [][ (last'.op \in {"add", "sub"} /\ last'.arg[1] \in DOMAIN heap) =>
          LET a   == heap[last'.self]
              b   == heap[last'.arg[1]]
              lat == IF last'.op = "add" THEN a.latitude + b.latitude
                                         ELSE a.latitude - b.latitude
              lon == IF last'.op = "add" THEN a.longitude + b.longitude
                                         ELSE a.longitude - b.longitude
          IN  /\ heap' = heap
              /\ last'.ok <=> (-90 <= lat /\ lat <= 90 /\ -180 <= lon /\ lon <= 180)
              /\ last'.ok => (last'.res.latitude = lat /\ last'.res.longitude = lon) ]_vars

\* C12 witness: a sum of two coordinates was refused because a component
\* left its domain.
C12_Witness ==
    /\ last.op = "add" /\ last.arg[1] \in DOMAIN heap /\ ~last.ok
    /\ heap[last.self].latitude + heap[last.arg[1]].latitude < -90

-----------------------------------------------------------------------------
(* Claims about distances, under SpecDistance *)

\* C13: distance_to never divides by zero: between two coordinates it
\* returns a number for every step; with a non-zero step the segment count
\* used as divisor is at least 1; and for coincident points and a step >= 0
\* the distance is 0.
C13_DistanceNeverDividesByZero ==
    (last.op = "distance_to" /\ last.arg[1] \in DOMAIN heap) =>
        LET x    == heap[last.self]
            y    == heap[last.arg[1]]
            step == last.arg[2]
        IN  /\ last.ok /\ last.res.kind = "value"
            /\ step.num # 0 => last.res.steps >= 1
            /\ ( /\ x.latitude = y.latitude
                 /\ x.longitude = y.longitude
                 /\ step.num >= 0 ) => last.res.value.num = 0

\* C13 witness: a distance between coincident points with a positive step,
\* where c / step truncates to 0.
C13_Witness ==
    /\ last.op = "distance_to" /\ last.arg[1] \in DOMAIN heap
    /\ last.arg[1] # last.self
    /\ heap[last.self] = heap[last.arg[1]]
    /\ last.arg[2].num > 0
    /\ last.res.c.num = 0 /\ last.res.steps = 1
    /\ last.res.value.num = 0

-----------------------------------------------------------------------------
(* Claims about coordinates as values, under SpecValue *)

\* C14: a == b is true exactly when both fields are equal, a != b is its
\* negation, equal coordinates have equal hashes, and == and != against a
\* value that is not a GeoCoordinate raise instead of returning a boolean.
C14_EqualityFieldWiseAndHashed ==
    /\ (last.op \in {"eq", "ne"} /\ last.arg[1] \notin DOMAIN heap) => ~last.ok
    /\ (last.op \in {"eq", "ne"} /\ last.arg[1] \in DOMAIN heap) =>
          LET a == heap[last.self]
              b == heap[last.arg[1]]
              same == a.latitude = b.latitude /\ a.longitude = b.longitude
          IN  /\ last.ok
              /\ last.op = "eq" => /\ last.res = same
                                   /\ last.res = ~__ne__(a, b).value
                                   /\ last.res => __hash__(a) = __hash__(b)
              /\ last.op = "ne" => /\ last.res = ~same
                                   /\ last.res = ~__eq__(a, b).value
    /\ last.op = "hash" =>
          \A b \in DOMAIN heap :
              __eq__(heap[last.self], heap[b]).value => last.res = __hash__(heap[b])

\* C14 witness: two distinct objects that agree in latitude only were
\* compared with ==.
C14_Witness ==
    /\ last.op = "eq" /\ last.ok
    /\ last.arg[1] \in DOMAIN heap /\ last.arg[1] # last.self
    /\ heap[last.self].latitude = heap[last.arg[1]].latitude
    /\ heap[last.self].longitude # heap[last.arg[1]].longitude
    /\ last.res = FALSE

\* C15: construction succeeds for every latitude in [-90, 90] and longitude
\* in [-180, 180]; to_tuple and to_list return (latitude, longitude), to_dict
\* has the keys latitude and longitude; and from_tuple, from_list and
\* from_dict applied to what the conversion returned build a coordinate
\* equal to the one converted.
C15_ConversionsRoundTrip ==
    [][ /\ ( /\ last'.op = "GeoCoordinate"
             /\ last'.arg[1] \in LatMin..LatMax
             /\ last'.arg[2] \in LonMin..LonMax ) =>
                /\ last'.ok
                /\ heap'[last'.self].latitude = last'.arg[1]
                /\ heap'[last'.self].longitude = last'.arg[2]
        /\ last'.op \in {"to_tuple", "to_list"} =>
                last'.res = <<heap[last'.self].latitude, heap[last'.self].longitude>>
        /\ last'.op = "to_dict" =>
                /\ DOMAIN last'.res = {"latitude", "longitude"}
                /\ last'.res.latitude = heap[last'.self].latitude
                /\ last'.res.longitude = heap[last'.self].longitude
        /\ last'.op \in {"from_tuple", "from_list", "from_dict"} =>
                /\ last'.ok
                /\ __eq__(heap'[last'.self], heap[last.self]) = Result(TRUE)
      ]_vars

\* C15 witness: a coordinate with different latitude and longitude was
\* rebuilt from its own tuple.
C15_Witness ==
    /\ last.op = "from_tuple" /\ last.ok
    /\ heap[last.self].latitude = last.arg[1][1]
    /\ heap[last.self].longitude = last.arg[1][2]
    /\ last.arg[1][1] # last.arg[1][2]
    /\ \E c \in DOMAIN heap \ {last.self} : heap[c] = heap[last.self]

-----------------------------------------------------------------------------
(* Claims about the extent and the coordinates it was built from, under Spec *)

\* C16: a successful assignment to the latitude or longitude of a coordinate
\* leaves to_dict(), to_tuple() and the hash of an existing extent unchanged.
C16_ExtentIndependentOfSources ==
    [][ ( /\ last'.op \in {"latitude", "longitude"}
          /\ last'.ok
          /\ ext.class = "GeoCoordinateExtent" ) =>
             /\ extent_to_dict(heap', ext') = extent_to_dict(heap, ext)
             /\ extent_to_tuple(heap', ext') = extent_to_tuple(heap, ext)
             /\ extent_hash(heap', ext') = extent_hash(heap, ext)
      ]_vars

=============================================================================
